---- MODULE Spec2Model ----
(***************************************************************************)
(* TNetXNGFile (net/netxng/src/TNetXNGFile.cxx): the asynchronous open,    *)
(* the blocking Init, the single-buffer operations and the vectored read   *)
(* ReadBuffers with its chunk planning, dispatch and join.                 *)
(*                                                                         *)
(* One TNetXNGFile object is modelled.  The remote session (XrdCl::File)   *)
(* is the environment: it accepts or rejects requests and delivers the     *)
(* completion callbacks on its own threads.                                *)
(***************************************************************************)
EXTENDS Integers, Sequences, FiniteSets, TLC

(***************************************************************************)
(* Bounds of the model.                                                    *)
(***************************************************************************)
\* largest length[i] of a ReadBuffers descriptor
MaxLen == 3
\* largest nbuffs of a ReadBuffers call
MaxBufs == 2
\* largest numeric token of the server's readv_ior_max / readv_iov_max answer
MaxLim == 2
\* most tokens in the server's answer to the limits query
MaxTokens == 2
\* Int_t is a two's complement integer of IntBits bits.  The build has 32;
\* the width is scaled down so that positions beyond the Int_t range can be
\* enumerated.  Lengths stay inside the Int_t range.
IntBits == 4
\* cap of fOffset and of the byte counters of the single-buffer operations
MaxBytes == 1
\* most completions of abandoned vectored reads outstanding when a new
\* ReadBuffers call starts
MaxOrphans == 1
\* cap of fReadCalls
MaxCalls == 1

(***************************************************************************)
(* Program constants.                                                      *)
(***************************************************************************)
\* fReadvIorMax default (line 613)
DefaultIorMax == 2097136
\* fReadvIovMax default (line 614)
DefaultIovMax == 1024

IntHalf == 2 ^ (IntBits - 1)
IntMax == IntHalf - 1

\* TFile::EAsyncOpenStatus
kAOSNotAsync == "kAOSNotAsync"
kAOSInProgress == "kAOSInProgress"
kAOSSuccess == "kAOSSuccess"
kAOSFailure == "kAOSFailure"
AsyncOpenStatuses == {kAOSNotAsync, kAOSInProgress, kAOSSuccess, kAOSFailure}

\* XrdCl::OpenFlags::Flags values produced by ParseOpenMode
OpenFlags == {"None", "New", "Delete", "Update", "Read"}

\* mode strings handed to the constructor and to ReOpen
ModeStrings == {"NEW", "CREATE", "RECREATE", "UPDATE", "READ", "read", "Update", "APPEND"}

\* mode strings the constructor is called with in the model
CtorModes == {"READ", "new"}

\* Long64_t positions of the descriptors: inside the Int_t range, and at its
\* upper end, where position + length lies beyond it
Positions == {0, IntMax}

\* the (position, length) lists ReadBuffers is called with
DescLists == UNION {[1..n -> Positions \X (0..MaxLen)] : n \in 0..MaxBufs}

\* the lists it is called with while the lifecycle of the file is explored
SmallDescLists == {<< >>, << <<0, 1>> >>}

VARIABLES
    fMode,             \* XrdCl::OpenFlags::Flags fMode
    sess,              \* state of the remote session fFile: "closed", "opening", "open"
    openCb,            \* response of the asynchronous open not yet handed to
                       \* TAsyncOpenHandler::HandleResponse: "none", "ok", "err"
    zombie,            \* TObject::IsZombie()
    fAsyncOpenStatus,  \* TFile::fAsyncOpenStatus
    fInitDone,         \* TFile::fInitDone
    initPc,            \* position of the thread inside Init(): "idle", "checked"
                       \* (condition of line 200 evaluated, Wait not yet entered),
                       \* "waiting" (inside fInitCondVar->Wait()), "woken"
    fReadvIorMax,      \* Int_t fReadvIorMax
    fReadvIovMax,      \* Int_t fReadvIovMax
    fOffset,           \* TFile::fOffset
    fBytesRead,        \* TFile::fBytesRead
    fReadCalls,        \* TFile::fReadCalls
    fBytesWrite,       \* TFile::fBytesWrite
    rbPc,              \* position of the thread inside ReadBuffers(): "idle",
                       \* "submit" (loop of lines 461-471), "wait" (474-476),
                       \* "check" (479-495), "done" (a return statement reached),
                       \* "crashed" (the process was killed)
    rbPos,             \* position[] of the call, after the shift of line 413
    rbLen,             \* length[] of the call
    chunkLists,        \* std::vector<ChunkList> chunkLists
    rbIt,              \* number of chunk lists handed to fFile->VectorRead
    inflight,          \* indices of the accepted VectorRead calls whose
                       \* TAsyncReadvHandler has not been called yet
    statuses,          \* *statuses: "null", "ok" or "err" per chunk list
    semaphore,         \* value of *semaphore
    rbWaited,          \* number of semaphore->Wait() calls that returned
    rbRet,             \* return value of the call: "none" until it returns,
                       \* then TRUE (failure) or FALSE
    rbReported,        \* index of the chunk list whose status Error() printed
                       \* at line 483, 0 when it printed none
    rbFreed,           \* per chunk list, how often "delete st" ran on its status
    rbReleased,        \* "delete statuses" and "delete semaphore" have run
                       \* (lines 484-485 or 512-513)
    rbStale,           \* *statuses or *semaphore was accessed after that
    orphans,           \* handlers still to be called of calls that returned
    otherPc,           \* position of a second thread inside its own ReadBuffers
                       \* call: "idle", "joined" (its join is complete, all its
                       \* statuses OK), "loadedBytes" / "storedBytes" (inside and
                       \* after fBytesRead += totalBytes of line 498),
                       \* "loadedCalls" (inside fReadCalls++ of line 500), "done"
    otherReg           \* the value that thread has loaded and not yet stored

fileVars == <<fMode, sess, openCb, zombie, fAsyncOpenStatus, fInitDone, initPc,
              fReadvIorMax, fReadvIovMax>>
countVars == <<fOffset, fBytesRead, fReadCalls, fBytesWrite>>
rbVars == <<rbPc, rbPos, rbLen, chunkLists, rbIt, inflight, statuses, semaphore,
            rbWaited, rbRet, rbReported, rbFreed, rbReleased, rbStale, orphans>>
otherVars == <<otherPc, otherReg>>
vars == <<fileVars, countVars, rbVars, otherVars>>

(***************************************************************************)
(* Helpers.                                                                *)
(***************************************************************************)
\* TNetXNGFile::IsOpen: fFile->IsOpen()
IsOpen == sess = "open"

\* TNetXNGFile::IsUseable: not a zombie and open
IsUseable == ~zombie /\ IsOpen

\* the process has not been killed
Alive == rbPc # "crashed"

\* the thread that uses the file is inside none of its blocking operations
UserIdle == initPc = "idle" /\ rbPc = "idle"

\* TString ToUpper on the mode strings of the model
ToUpper(s) ==
    CASE s = "read" -> "READ"
      [] s = "new" -> "NEW"
      [] s = "Update" -> "UPDATE"
      [] OTHER -> s

\* TNetXNGFile::ParseOpenMode
ParseOpenMode(modestr) ==
    LET mod == ToUpper(modestr) IN
    IF mod = "NEW" \/ mod = "CREATE" THEN "New"
    ELSE IF mod = "RECREATE" THEN "Delete"
    ELSE IF mod = "UPDATE" THEN "Update"
    ELSE IF mod = "READ" THEN "Read"
    ELSE "None"

\* tokens of the server's answer to "readv_ior_max readv_iov_max"
Tokens == {ToString(n) : n \in 1..MaxLim} \cup {"x"}

\* TString::Atoi: the number a token spells, 0 when it spells none
Atoi(token) ==
    IF \E n \in 0..MaxLim : ToString(n) = token
    THEN CHOOSE n \in 0..MaxLim : ToString(n) = token
    ELSE 0

TokenSeqs == UNION {[1..n -> Tokens] : n \in 0..MaxTokens}

\* outcomes of the limits query: GetProperty("DataServer") fails, the Query
\* fails, or the Query answers with a list of tokens
QueryOutcomes ==
    {[kind |-> "noDataServer", tokens |-> <<>>], [kind |-> "queryFail", tokens |-> <<>>]}
    \cup {[kind |-> "ok", tokens |-> t] : t \in TokenSeqs}

\* the Tokenize loop of GetVectorReadLimits (lines 641-644)
RECURSIVE ParseLimits(_, _, _)
ParseLimits(tokens, ior, iov) ==
    IF tokens = <<>> THEN [ior |-> ior, iov |-> iov]
    ELSE IF ior = 0 THEN ParseLimits(Tail(tokens), Atoi(Head(tokens)), iov)
    ELSE IF iov = 0 THEN ParseLimits(Tail(tokens), ior, Atoi(Head(tokens)))
    ELSE ParseLimits(Tail(tokens), ior, iov)

\* TNetXNGFile::GetVectorReadLimits on a file whose IsUseable() is usable and
\* whose query ends as q: the limits it leaves, its return value and the
\* session calls it issues
GetVectorReadLimits(usable, q) ==
    IF ~usable
    THEN [ior |-> DefaultIorMax, iov |-> DefaultIovMax, ret |-> FALSE, net |-> {}]
    ELSE IF q.kind = "noDataServer"
    THEN [ior |-> DefaultIorMax, iov |-> DefaultIovMax, ret |-> FALSE, net |-> {}]
    ELSE IF q.kind = "queryFail"
    THEN [ior |-> DefaultIorMax, iov |-> DefaultIovMax, ret |-> FALSE, net |-> {"Query"}]
    ELSE LET lim == ParseLimits(q.tokens, 0, 0) IN
         [ior |-> lim.ior, iov |-> lim.iov, ret |-> TRUE, net |-> {"Query"}]

\* TFile::Init: whether the object is a zombie after it.  It reads the file
\* header through ReadBuffer and makes the object a zombie when that fails.
TFileInitZombie(z, usable, hdrOK) == z \/ ~usable \/ ~hdrOK

\* values an Int_t member holds that no constructor path has assigned
UninitInts == 0..MaxLim

(***************************************************************************)
(* The state after TNetXNGFile::TNetXNGFile.                               *)
(***************************************************************************)
\* asynchronous open (lines 148-157): the handler's constructor sets
\* kAOSInProgress; a rejected submission makes the object a zombie
CtorAsync(modestr, accepted, u1, u2) ==
    /\ fMode = ParseOpenMode(modestr)
    /\ fAsyncOpenStatus = kAOSInProgress
    /\ sess = (IF accepted THEN "opening" ELSE "closed")
    /\ zombie = ~accepted
    /\ openCb = "none"
    /\ fInitDone = FALSE
    /\ initPc = "idle"
    /\ fReadvIorMax = u1
    /\ fReadvIovMax = u2

\* synchronous open (lines 159-171)
CtorSync(modestr, openOK, hdrOK, q, u1, u2) ==
    /\ fMode = ParseOpenMode(modestr)
    /\ fAsyncOpenStatus = kAOSNotAsync
    /\ openCb = "none"
    /\ initPc = "idle"
    /\ IF ~openOK
       THEN /\ sess = "closed"
            /\ zombie = TRUE
            /\ fInitDone = FALSE
            /\ fReadvIorMax = u1
            /\ fReadvIovMax = u2
       ELSE LET z == TFileInitZombie(FALSE, TRUE, hdrOK)
                lim == GetVectorReadLimits(~z, q) IN
            /\ sess = "open"
            /\ zombie = z
            /\ fInitDone = TRUE
            /\ fReadvIorMax = lim.ior
            /\ fReadvIovMax = lim.iov

CountersZero ==
    /\ fOffset = 0
    /\ fBytesRead = 0
    /\ fReadCalls = 0
    /\ fBytesWrite = 0

\* no ReadBuffers call is running
ReadBuffersIdle ==
    /\ rbPc = "idle"
    /\ rbPos = << >>
    /\ rbLen = << >>
    /\ chunkLists = << >>
    /\ rbIt = 0
    /\ inflight = {}
    /\ statuses = << >>
    /\ semaphore = 0
    /\ rbWaited = 0
    /\ rbRet = "none"
    /\ rbReported = 0
    /\ rbFreed = << >>
    /\ rbReleased = FALSE
    /\ rbStale = FALSE

\* no second thread is inside ReadBuffers
OtherIdle == otherPc = "idle" /\ otherReg = 0

Init ==
    /\ CountersZero
    /\ ReadBuffersIdle
    /\ OtherIdle
    /\ orphans = 0
    /\ \E modestr \in CtorModes, u1 \in UninitInts, u2 \in UninitInts :
          \/ \E accepted \in BOOLEAN : CtorAsync(modestr, accepted, u1, u2)
          \/ \E openOK \in BOOLEAN, hdrOK \in BOOLEAN, q \in QueryOutcomes :
                CtorSync(modestr, openOK, hdrOK, q, u1, u2)

(***************************************************************************)
(* The asynchronous open.                                                  *)
(***************************************************************************)
\* TNetXNGFile::SetAsyncOpenStatus: store the status, then Signal() the
\* condition variable, which wakes a thread that is inside Wait()
SetAsyncOpenStatus(status) ==
    /\ fAsyncOpenStatus' = status
    /\ initPc' = (IF initPc = "waiting" THEN "woken" ELSE initPc)

\* the public method called by any other caller
SetAsyncOpenStatusCall(status) ==
    /\ Alive
    /\ SetAsyncOpenStatus(status)
    /\ UNCHANGED <<fMode, sess, openCb, zombie, fInitDone, fReadvIorMax, fReadvIovMax>>
    /\ UNCHANGED countVars
    /\ UNCHANGED rbVars
    /\ UNCHANGED otherVars

\* the remote session finishes the open submitted at line 151
SessionOpenDone(ok) ==
    /\ Alive
    /\ sess = "opening"
    /\ sess' = (IF ok THEN "open" ELSE "closed")
    /\ openCb' = (IF ok THEN "ok" ELSE "err")
    /\ UNCHANGED <<fMode, zombie, fAsyncOpenStatus, fInitDone, initPc,
                   fReadvIorMax, fReadvIovMax>>
    /\ UNCHANGED countVars
    /\ UNCHANGED rbVars
    /\ UNCHANGED otherVars

\* TAsyncOpenHandler::HandleResponse
HandleResponse ==
    /\ Alive
    /\ openCb # "none"
    /\ SetAsyncOpenStatus(IF openCb = "ok" THEN kAOSSuccess ELSE kAOSFailure)
    /\ openCb' = "none"
    /\ UNCHANGED <<fMode, sess, zombie, fInitDone, fReadvIorMax, fReadvIovMax>>
    /\ UNCHANGED countVars
    /\ UNCHANGED rbVars
    /\ UNCHANGED otherVars

(***************************************************************************)
(* TNetXNGFile::Init.                                                      *)
(***************************************************************************)
\* the condition of line 200: Init has to wait for the asynchronous open
InitMustWait == ~IsOpen /\ fAsyncOpenStatus = kAOSInProgress

\* lines 204-218: TFile::Init, then GetVectorReadLimits
InitBody(hdrOK, q) ==
    LET z == TFileInitZombie(zombie, IsUseable, hdrOK)
        lim == GetVectorReadLimits(~z /\ IsOpen, q) IN
    /\ fInitDone' = TRUE
    /\ zombie' = z
    /\ fReadvIorMax' = lim.ior
    /\ fReadvIovMax' = lim.iov
    /\ initPc' = "idle"
    /\ UNCHANGED <<fMode, sess, openCb, fAsyncOpenStatus>>
    /\ UNCHANGED countVars
    /\ UNCHANGED rbVars
    /\ UNCHANGED otherVars

\* an Init without the fInitDone test of lines 194-197
InitCallNoDoneTest(hdrOK, q) ==
    /\ UserIdle
    /\ IF InitMustWait
       THEN /\ initPc' = "checked"
            /\ UNCHANGED <<fMode, sess, openCb, zombie, fAsyncOpenStatus, fInitDone,
                           fReadvIorMax, fReadvIovMax>>
            /\ UNCHANGED countVars
            /\ UNCHANGED rbVars
            /\ UNCHANGED otherVars
       ELSE InitBody(hdrOK, q)

\* Init is entered: lines 194-202 up to, not including, the Wait
InitCall(hdrOK, q) ==
    /\ UserIdle
    /\ IF fInitDone
       THEN UNCHANGED vars
       ELSE IF InitMustWait
       THEN /\ initPc' = "checked"
            /\ UNCHANGED <<fMode, sess, openCb, zombie, fAsyncOpenStatus, fInitDone,
                           fReadvIorMax, fReadvIovMax>>
            /\ UNCHANGED countVars
            /\ UNCHANGED rbVars
            /\ UNCHANGED otherVars
       ELSE InitBody(hdrOK, q)

\* the thread enters fInitCondVar->Wait() (line 201)
InitWait ==
    /\ Alive
    /\ initPc = "checked"
    /\ initPc' = "waiting"
    /\ UNCHANGED <<fMode, sess, openCb, zombie, fAsyncOpenStatus, fInitDone,
                   fReadvIorMax, fReadvIovMax>>
    /\ UNCHANGED countVars
    /\ UNCHANGED rbVars
    /\ UNCHANGED otherVars

\* pthread_cond_wait may return without a signal
SpuriousWakeup ==
    /\ Alive
    /\ initPc = "waiting"
    /\ initPc' = "woken"
    /\ UNCHANGED <<fMode, sess, openCb, zombie, fAsyncOpenStatus, fInitDone,
                   fReadvIorMax, fReadvIovMax>>
    /\ UNCHANGED countVars
    /\ UNCHANGED rbVars
    /\ UNCHANGED otherVars

\* Wait() has returned: the rest of Init runs
InitResume(hdrOK, q) ==
    /\ Alive
    /\ initPc = "woken"
    /\ InitBody(hdrOK, q)

(***************************************************************************)
(* Close and ReOpen.                                                       *)
(***************************************************************************)
\* TNetXNGFile::Close: fFile->Close() is issued whatever the state (a session
\* that is not open answers with an error); ok is the status of closing an
\* open session
CloseResult(ok) ==
    [net |-> {"Close"},
     sess |-> IF sess = "open" THEN "closed" ELSE sess,
     zombie |-> (zombie \/ sess # "open" \/ ~ok)]

Close(ok) ==
    /\ UserIdle
    /\ sess' = CloseResult(ok).sess
    /\ zombie' = CloseResult(ok).zombie
    /\ UNCHANGED <<fMode, openCb, fAsyncOpenStatus, fInitDone, initPc,
                   fReadvIorMax, fReadvIovMax>>
    /\ UNCHANGED countVars
    /\ UNCHANGED rbVars
    /\ UNCHANGED otherVars

\* a ReOpen without the Update-after-New case of lines 301-302
ReOpenResultNoNewCase(modestr, openOK) ==
    LET mode == ParseOpenMode(modestr)
        closed == IF sess = "open" THEN "closed" ELSE sess IN
    IF mode # "Read" /\ mode # "Update"
    THEN [ret |-> 1, net |-> {}, fMode |-> fMode, sess |-> sess]
    ELSE IF mode = fMode
    THEN [ret |-> 1, net |-> {}, fMode |-> fMode, sess |-> sess]
    ELSE IF closed = "closed" /\ openOK
    THEN [ret |-> 0, net |-> {"Close", "Open"}, fMode |-> mode, sess |-> "open"]
    ELSE [ret |-> 1, net |-> {"Close", "Open"}, fMode |-> mode, sess |-> closed]

\* TNetXNGFile::ReOpen: its return value, the session calls it issues and the
\* mode and session state it leaves; openOK is the status of the Open of line
\* 309 on a closed session (a session that is not closed rejects the Open)
ReOpenResult(modestr, openOK) ==
    LET mode == ParseOpenMode(modestr)
        closed == IF sess = "open" THEN "closed" ELSE sess IN
    IF mode # "Read" /\ mode # "Update"
    THEN [ret |-> 1, net |-> {}, fMode |-> fMode, sess |-> sess]
    ELSE IF mode = fMode \/ (mode = "Update" /\ fMode = "New")
    THEN [ret |-> 1, net |-> {}, fMode |-> fMode, sess |-> sess]
    ELSE IF closed = "closed" /\ openOK
    THEN [ret |-> 0, net |-> {"Close", "Open"}, fMode |-> mode, sess |-> "open"]
    ELSE [ret |-> 1, net |-> {"Close", "Open"}, fMode |-> mode, sess |-> closed]

ReOpen(modestr, openOK) ==
    /\ UserIdle
    /\ fMode' = ReOpenResult(modestr, openOK).fMode
    /\ sess' = ReOpenResult(modestr, openOK).sess
    /\ UNCHANGED <<openCb, zombie, fAsyncOpenStatus, fInitDone, initPc,
                   fReadvIorMax, fReadvIovMax>>
    /\ UNCHANGED countVars
    /\ UNCHANGED rbVars
    /\ UNCHANGED otherVars

(***************************************************************************)
(* The single-buffer operations.                                           *)
(***************************************************************************)
\* a ReadBuffer that bumps the offset and the counters before it tests the
\* status of the Read
ReadBufferResultBumpsFirst(length, cache, ok, bytesRead) ==
    LET same == [fOffset |-> fOffset, fBytesRead |-> fBytesRead, fReadCalls |-> fReadCalls] IN
    IF ~IsUseable THEN [ret |-> TRUE, net |-> {}] @@ same
    ELSE IF cache # 0 THEN [ret |-> (cache = 2), net |-> {}] @@ same
    ELSE [ret |-> ~ok, net |-> {"Read"}, fOffset |-> fOffset + length,
          fBytesRead |-> fBytesRead + bytesRead, fReadCalls |-> fReadCalls + 1]

\* TNetXNGFile::ReadBuffer(buffer, position, length); ReadBuffer(buffer,
\* length) calls it with position = fOffset.  cache is the result of
\* ReadBufferViaCache, ok the status of fFile->Read, bytesRead its count.
\* ret is kTRUE in case of failure.
ReadBufferResult(length, cache, ok, bytesRead) ==
    LET same == [fOffset |-> fOffset, fBytesRead |-> fBytesRead, fReadCalls |-> fReadCalls] IN
    IF ~IsUseable THEN [ret |-> TRUE, net |-> {}] @@ same
    ELSE IF cache # 0 THEN [ret |-> (cache = 2), net |-> {}] @@ same
    ELSE IF ~ok THEN [ret |-> TRUE, net |-> {"Read"}] @@ same
    ELSE [ret |-> FALSE, net |-> {"Read"}, fOffset |-> fOffset + length,
          fBytesRead |-> fBytesRead + bytesRead, fReadCalls |-> fReadCalls + 1]

ReadBuffer(length, cache, ok, bytesRead) ==
    LET r == ReadBufferResult(length, cache, ok, bytesRead) IN
    /\ UserIdle
    /\ bytesRead <= length
    /\ r.fOffset <= MaxBytes
    /\ r.fBytesRead <= MaxBytes
    /\ r.fReadCalls <= MaxCalls
    /\ fOffset' = r.fOffset
    /\ fBytesRead' = r.fBytesRead
    /\ fReadCalls' = r.fReadCalls
    /\ UNCHANGED fBytesWrite
    /\ UNCHANGED fileVars
    /\ UNCHANGED rbVars
    /\ UNCHANGED otherVars

\* TNetXNGFile::WriteBuffer
WriteBufferResult(length, cache, ok) ==
    LET same == [fOffset |-> fOffset, fBytesWrite |-> fBytesWrite] IN
    IF ~IsUseable THEN [ret |-> TRUE, net |-> {}] @@ same
    ELSE IF cache # 0 THEN [ret |-> (cache = 2), net |-> {}] @@ same
    ELSE IF ~ok THEN [ret |-> TRUE, net |-> {"Write"}] @@ same
    ELSE [ret |-> FALSE, net |-> {"Write"}, fOffset |-> fOffset + length,
          fBytesWrite |-> fBytesWrite + length]

WriteBuffer(length, cache, ok) ==
    LET r == WriteBufferResult(length, cache, ok) IN
    /\ UserIdle
    /\ r.fOffset <= MaxBytes
    /\ r.fBytesWrite <= MaxBytes
    /\ fOffset' = r.fOffset
    /\ fBytesWrite' = r.fBytesWrite
    /\ UNCHANGED <<fBytesRead, fReadCalls>>
    /\ UNCHANGED fileVars
    /\ UNCHANGED rbVars
    /\ UNCHANGED otherVars

\* TNetXNGFile::GetSize: -1 when the file is unusable or the Stat fails
GetSizeResult(statOK, size) ==
    IF ~IsUseable THEN [ret |-> -1, net |-> {}]
    ELSE [ret |-> IF statOK THEN size ELSE -1,
          net |-> {IF fMode = "Read" THEN "Stat" ELSE "StatForce"}]

GetSize(statOK, size) ==
    /\ UserIdle
    /\ GetSizeResult(statOK, size).ret >= -1
    /\ UNCHANGED vars

(***************************************************************************)
(* TNetXNGFile::ReadBuffers: the chunk planning.                           *)
(***************************************************************************)
\* the value an Int_t holds after a Long64_t value x is assigned to it
ToInt(x) == ((x + IntHalf) % (2 * IntHalf)) - IntHalf

\* lines 419-438: the ChunkInfos pushed for one descriptor.  The offset goes
\* through the Int_t variable "offset" of line 406; a negative offset stands
\* for the uint64_t value it converts to in ChunkInfo.
SplitDescriptor(position, length, iorMax) ==
    IF length > iorMax
    THEN LET nsplit == length \div iorMax
             rem == length % iorMax IN
         [j \in 1..nsplit |-> [offset |-> ToInt(position + (j - 1) * iorMax),
                               length |-> iorMax]]
         \o << [offset |-> ToInt(position + nsplit * iorMax), length |-> rem] >>
    ELSE << [offset |-> ToInt(position), length |-> length] >>

\* whether the division of line 421 is defined for every descriptor
PlanDefined(length, iorMax) ==
    \A i \in 1..Len(length) : length[i] > iorMax => iorMax # 0

\* lines 416-452: the loop over the descriptors from descriptor i on, chunks
\* and lists being the values of "chunks" and "chunkLists" before it
RECURSIVE BuildChunkLists(_, _, _, _, _, _, _)
BuildChunkLists(position, length, i, chunks, lists, iorMax, iovMax) ==
    IF i > Len(length) THEN Append(lists, chunks)
    ELSE LET c == chunks \o SplitDescriptor(position[i], length[i], iorMax) IN
         IF Len(c) = iovMax
         THEN BuildChunkLists(position, length, i + 1, << >>, Append(lists, c),
                              iorMax, iovMax)
         ELSE IF Len(c) > iovMax
         THEN BuildChunkLists(position, length, i + 1, SubSeq(c, iovMax + 1, Len(c)),
                              Append(lists, SubSeq(c, 1, iovMax)), iorMax, iovMax)
         ELSE BuildChunkLists(position, length, i + 1, c, lists, iorMax, iovMax)

RECURSIVE SumSeq(_)
SumSeq(q) == IF q = << >> THEN 0 ELSE Head(q) + SumSeq(Tail(q))

\* Int_t totalBytes of lines 405 and 417
TotalBytes(length) == ToInt(SumSeq(length))

\* the values totalBytes can hold after the loop.  A sum beyond the Int_t
\* range is a signed overflow at line 417: the build either wraps it or has
\* kept the sum in a wider register.
TotalBytesOutcomes(length) == {TotalBytes(length), SumSeq(length)}

(***************************************************************************)
(* TNetXNGFile::ReadBuffers: the call, step by step.                       *)
(***************************************************************************)
\* lines 381-457: the call is entered, the chunk lists are built, the
\* semaphore and the status vector are allocated
ReadBuffers(descs) ==
    LET position == [k \in 1..Len(descs) |-> descs[k][1]]
        length == [k \in 1..Len(descs) |-> descs[k][2]] IN
    /\ UserIdle
    /\ fReadCalls < MaxCalls
    /\ orphans < MaxOrphans
    /\ rbPos' = position
    /\ rbLen' = length
    /\ IF ~IsUseable
       THEN /\ rbPc' = "done"
            /\ rbRet' = TRUE
            /\ UNCHANGED <<chunkLists, statuses, rbFreed>>
       ELSE IF ~PlanDefined(length, fReadvIorMax)
       THEN /\ rbPc' = "crashed"
            /\ UNCHANGED <<chunkLists, statuses, rbFreed, rbRet>>
       ELSE LET lists == BuildChunkLists(position, length, 1, << >>, << >>,
                                         fReadvIorMax, fReadvIovMax) IN
            /\ rbPc' = "submit"
            /\ chunkLists' = lists
            /\ statuses' = [b \in 1..Len(lists) |-> "null"]
            /\ rbFreed' = [b \in 1..Len(lists) |-> 0]
            /\ UNCHANGED rbRet
    /\ UNCHANGED <<rbIt, inflight, semaphore, rbWaited, rbReported, rbReleased,
                   rbStale, orphans>>
    /\ UNCHANGED fileVars
    /\ UNCHANGED countVars
    /\ UNCHANGED otherVars

\* lines 461-471: one pass of the loop that hands a chunk list to VectorRead
ReadBuffersSubmit(accepted) ==
    /\ rbPc = "submit"
    /\ rbIt' = rbIt + 1
    /\ IF accepted
       THEN /\ inflight' = inflight \cup {rbIt + 1}
            /\ rbPc' = (IF rbIt + 1 = Len(chunkLists) THEN "wait" ELSE "submit")
            /\ UNCHANGED rbRet
       ELSE /\ rbPc' = "done"
            /\ rbRet' = TRUE
            /\ UNCHANGED inflight
    /\ UNCHANGED <<rbPos, rbLen, chunkLists, statuses, semaphore, rbWaited,
                   rbReported, rbFreed, rbReleased, rbStale, orphans>>
    /\ UNCHANGED fileVars
    /\ UNCHANGED countVars
    /\ UNCHANGED otherVars

\* TAsyncReadvHandler::HandleResponse of chunk list b, with status ok
ReadvHandleResponse(b, ok) ==
    /\ Alive
    /\ b \in inflight
    /\ statuses' = [statuses EXCEPT ![b] = IF ok THEN "ok" ELSE "err"]
    /\ semaphore' = semaphore + 1
    /\ inflight' = inflight \ {b}
    /\ rbStale' = (rbStale \/ rbReleased)
    /\ UNCHANGED <<rbPc, rbPos, rbLen, chunkLists, rbIt, rbWaited, rbRet,
                   rbReported, rbFreed, rbReleased, orphans>>
    /\ UNCHANGED fileVars
    /\ UNCHANGED countVars
    /\ UNCHANGED otherVars

\* a join loop that runs one time too few
ReadBuffersWaitOneShort ==
    /\ rbPc = "wait"
    /\ semaphore > 0
    /\ semaphore' = semaphore - 1
    /\ rbWaited' = rbWaited + 1
    /\ rbPc' = (IF rbWaited + 1 >= Len(chunkLists) - 1 THEN "check" ELSE "wait")
    /\ rbStale' = (rbStale \/ rbReleased)
    /\ UNCHANGED <<rbPos, rbLen, chunkLists, rbIt, inflight, statuses, rbRet,
                   rbReported, rbFreed, rbReleased, orphans>>
    /\ UNCHANGED fileVars
    /\ UNCHANGED countVars
    /\ UNCHANGED otherVars

\* lines 474-476: one semaphore->Wait() returns
ReadBuffersWait ==
    /\ rbPc = "wait"
    /\ semaphore > 0
    /\ semaphore' = semaphore - 1
    /\ rbWaited' = rbWaited + 1
    /\ rbPc' = (IF rbWaited + 1 = Len(chunkLists) THEN "check" ELSE "wait")
    /\ rbStale' = (rbStale \/ rbReleased)
    /\ UNCHANGED <<rbPos, rbLen, chunkLists, rbIt, inflight, statuses, rbRet,
                   rbReported, rbFreed, rbReleased, orphans>>
    /\ UNCHANGED fileVars
    /\ UNCHANGED countVars
    /\ UNCHANGED otherVars

\* a scan that reports the failing status of the highest index
ScanStatusesBackward(st, it) ==
    IF \E b \in it..Len(st) : st[b] # "ok"
    THEN CHOOSE b \in it..Len(st) : st[b] # "ok" /\ \A c \in (b + 1)..Len(st) : st[c] = "ok"
    ELSE 0

\* the loop of lines 479-495 from chunk list it on: the index of the chunk
\* list at whose status it stops, 0 when it runs to the end
RECURSIVE ScanStatuses(_, _)
ScanStatuses(st, it) ==
    IF it > Len(st) THEN 0
    ELSE IF st[it] # "ok" THEN it
    ELSE ScanStatuses(st, it + 1)

\* lines 479-514: the scan of the statuses.  The statuses before the first
\* failing one are deleted at line 494.  On a failing status Error() prints
\* it, the vector is deleted (line 484) and read again (line 488): the read
\* of the freed vector either finds it intact, and the statuses from the
\* failing one on are deleted at line 489, or kills the process.  Both
\* paths delete the vector and the semaphore (lines 484-485, 512-513).
ReadBuffersCheck(intact) ==
    /\ rbPc = "check"
    /\ rbReported' = ScanStatuses(statuses, 1)
    /\ rbReleased' = TRUE
    /\ IF ScanStatuses(statuses, 1) # 0
       THEN /\ rbPc' = (IF intact THEN "done" ELSE "crashed")
            /\ rbRet' = (IF intact THEN TRUE ELSE rbRet)
            /\ rbFreed' = [b \in 1..Len(statuses) |->
                              IF b < ScanStatuses(statuses, 1) \/ intact THEN 1 ELSE 0]
            /\ rbStale' = TRUE
            /\ UNCHANGED countVars
       ELSE /\ rbPc' = "done"
            /\ rbRet' = FALSE
            /\ rbFreed' = [b \in 1..Len(statuses) |-> 1]
            /\ UNCHANGED rbStale
            /\ \E total \in TotalBytesOutcomes(rbLen) : fBytesRead' = fBytesRead + total
            /\ fReadCalls' = fReadCalls + 1
            /\ UNCHANGED <<fOffset, fBytesWrite>>
    /\ UNCHANGED <<rbPos, rbLen, chunkLists, rbIt, inflight, statuses, semaphore,
                   rbWaited, orphans>>
    /\ UNCHANGED fileVars
    /\ UNCHANGED otherVars

\* the call returns to its caller; the handlers of the chunk lists that
\* were accepted and not answered stay with the remote session
ReadBuffersReturn ==
    /\ rbPc = "done"
    /\ rbPc' = "idle"
    /\ rbPos' = << >>
    /\ rbLen' = << >>
    /\ chunkLists' = << >>
    /\ rbIt' = 0
    /\ inflight' = {}
    /\ statuses' = << >>
    /\ semaphore' = 0
    /\ rbWaited' = 0
    /\ rbRet' = "none"
    /\ rbReported' = 0
    /\ rbFreed' = << >>
    /\ rbReleased' = FALSE
    /\ rbStale' = FALSE
    /\ orphans' = orphans + Cardinality(inflight)
    /\ UNCHANGED fileVars
    /\ UNCHANGED countVars
    /\ UNCHANGED otherVars

\* TAsyncReadvHandler::HandleResponse of a call that has returned: it
\* writes to the status vector and the semaphore that call left allocated
OrphanHandleResponse ==
    /\ Alive
    /\ orphans > 0
    /\ orphans' = orphans - 1
    /\ UNCHANGED <<rbPc, rbPos, rbLen, chunkLists, rbIt, inflight, statuses, semaphore,
                   rbWaited, rbRet, rbReported, rbFreed, rbReleased, rbStale>>
    /\ UNCHANGED fileVars
    /\ UNCHANGED countVars
    /\ UNCHANGED otherVars

\* the steps of a running ReadBuffers call and of the remote session's answers
ReadBuffersSteps ==
    \/ \E accepted \in BOOLEAN : ReadBuffersSubmit(accepted)
    \/ \E b \in 1..(MaxBufs + 1), ok \in BOOLEAN : ReadvHandleResponse(b, ok)
    \/ ReadBuffersWait
    \/ \E intact \in BOOLEAN : ReadBuffersCheck(intact)
    \/ ReadBuffersReturn
    \/ OrphanHandleResponse

\* the asynchronous open, Init and the operations of the file, without calls
\* of SetAsyncOpenStatus from outside the open handler
NextOpen ==
    \/ \E ok \in BOOLEAN : SessionOpenDone(ok)
    \/ HandleResponse
    \/ \E hdrOK \in BOOLEAN, q \in QueryOutcomes : InitCall(hdrOK, q)
    \/ InitWait
    \/ SpuriousWakeup
    \/ \E hdrOK \in BOOLEAN, q \in QueryOutcomes : InitResume(hdrOK, q)
    \/ \E ok \in BOOLEAN : Close(ok)
    \/ \E modestr \in ModeStrings, openOK \in BOOLEAN : ReOpen(modestr, openOK)
    \/ \E length \in 0..1, cache \in 0..2, ok \in BOOLEAN, bytesRead \in 0..1 :
          ReadBuffer(length, cache, ok, bytesRead)
    \/ \E length \in 0..1, cache \in 0..2, ok \in BOOLEAN : WriteBuffer(length, cache, ok)
    \/ \E statOK \in BOOLEAN, size \in 0..MaxBytes : GetSize(statOK, size)

Next ==
    \/ NextOpen
    \/ \E status \in AsyncOpenStatuses : SetAsyncOpenStatusCall(status)
    \/ \E descs \in SmallDescLists : ReadBuffers(descs)
    \/ ReadBuffersSteps

Spec == Init /\ [][Next]_vars

\* the open coordination alone
SpecOpen == Init /\ [][NextOpen]_vars

\* the remote session answers every open it accepted and calls the handler;
\* a thread that can run inside Init does run
FairSpec ==
    /\ SpecOpen
    /\ WF_vars(\E ok \in BOOLEAN : SessionOpenDone(ok))
    /\ WF_vars(HandleResponse)
    /\ WF_vars(InitWait)
    /\ WF_vars(\E hdrOK \in BOOLEAN, q \in QueryOutcomes : InitResume(hdrOK, q))

\* a file that was opened synchronously with success, with the limits the
\* server answered: the state ReadBuffers is explored from
InitReadv ==
    /\ CountersZero
    /\ ReadBuffersIdle
    /\ OtherIdle
    /\ orphans = 0
    /\ \E q \in QueryOutcomes : CtorSync("READ", TRUE, TRUE, q, 0, 0)

NextReadv ==
    \/ \E descs \in DescLists : ReadBuffers(descs)
    \/ ReadBuffersSteps

SpecReadv == InitReadv /\ [][NextReadv]_vars

\* descriptor lists whose lengths, each inside the Int_t range, sum to more
\* than the largest Int_t value as soon as there are two of them, at
\* position 0 and at the first Long64_t position beyond the Int_t range
LongDescLists ==
    UNION {[1..n -> {0, IntHalf} \X {IntHalf \div 2, IntMax}] : n \in 1..MaxBufs}

NextLong ==
    \/ \E descs \in LongDescLists : ReadBuffers(descs)
    \/ ReadBuffersSteps

\* ReadBuffers called with long descriptors on a usable file
SpecLong == InitReadv /\ [][NextLong]_vars

(***************************************************************************)
(* A second thread inside ReadBuffers on the same file.  chunkLists,       *)
(* statuses and semaphore are locals of the call (lines 401-406, 456-457), *)
(* so its plan, its submissions and its join touch nothing of the first    *)
(* call; what the two calls share are the members fBytesRead and           *)
(* fReadCalls, which lines 498 and 500 update without a lock.  The         *)
(* unlocked updates are a data race; of its outcomes the model takes       *)
(* those of a load and a store per update.                                 *)
(***************************************************************************)
\* the descriptors of the second thread's call and its totalBytes
OtherDescs == << <<0, 1>> >>
OtherTotalBytes == TotalBytes([k \in 1..Len(OtherDescs) |-> OtherDescs[k][2]])

\* lines 381-495 of the second thread: the file is usable and every chunk
\* list of the call completed OK
OtherJoined ==
    /\ Alive
    /\ IsUseable
    /\ otherPc = "idle"
    /\ otherPc' = "joined"
    /\ UNCHANGED <<otherReg, fileVars, countVars, rbVars>>

\* line 498, fBytesRead += totalBytes: the load
OtherLoadBytes ==
    /\ Alive
    /\ otherPc = "joined"
    /\ otherPc' = "loadedBytes"
    /\ otherReg' = fBytesRead
    /\ UNCHANGED <<fileVars, countVars, rbVars>>

\* line 498: the store
OtherStoreBytes ==
    /\ Alive
    /\ otherPc = "loadedBytes"
    /\ otherPc' = "storedBytes"
    /\ fBytesRead' = otherReg + OtherTotalBytes
    /\ otherReg' = 0
    /\ UNCHANGED <<fOffset, fReadCalls, fBytesWrite, fileVars, rbVars>>

\* line 500, fReadCalls++: the load
OtherLoadCalls ==
    /\ Alive
    /\ otherPc = "storedBytes"
    /\ otherPc' = "loadedCalls"
    /\ otherReg' = fReadCalls
    /\ UNCHANGED <<fileVars, countVars, rbVars>>

\* line 500: the store; the call returns kFALSE
OtherStoreCalls ==
    /\ Alive
    /\ otherPc = "loadedCalls"
    /\ otherPc' = "done"
    /\ fReadCalls' = otherReg + 1
    /\ otherReg' = 0
    /\ UNCHANGED <<fOffset, fBytesRead, fBytesWrite, fileVars, rbVars>>

\* ReadBuffers calls of two threads on a usable file
NextConc ==
    \/ \E descs \in SmallDescLists : ReadBuffers(descs)
    \/ ReadBuffersSteps
    \/ OtherJoined
    \/ OtherLoadBytes
    \/ OtherStoreBytes
    \/ OtherLoadCalls
    \/ OtherStoreCalls

SpecConc == InitReadv /\ [][NextConc]_vars

(***************************************************************************)
(* The claims about the asynchronous open.                                 *)
(***************************************************************************)
\* the thread is on the blocking path of Init: it found the open
\* InProgress at line 200 and has not come back from Wait()
InitBlocked == initPc \in {"checked", "waiting"}

\* C1: a thread that Init blocks because the asynchronous open is
\* InProgress is always eventually released once the completion callback has
\* set Success or Failure, whatever the interleaving of the callback with
\* Init's check and wait.
C1_InitReleased ==
    (InitBlocked /\ fAsyncOpenStatus \in {kAOSSuccess, kAOSFailure}) ~> ~InitBlocked

\* C2: a ReadBuffer call issued while the asynchronous open is in flight and
\* its callback has not fired does not return failure for the file not
\* being open yet: a cache miss followed by a good Read returns kFALSE.
C2_ReadBufferWaitsForOpen ==
    (sess = "opening" /\ fAsyncOpenStatus = kAOSInProgress /\ UserIdle)
        => ReadBufferResult(1, 0, TRUE, 1).ret = FALSE

\* C3: once the status of the asynchronous open is Success or Failure, no
\* step changes it, a further SetAsyncOpenStatus call included.
C3_StatusNeverRegresses ==
    [][(fAsyncOpenStatus \in {kAOSSuccess, kAOSFailure})
          => (fAsyncOpenStatus' = fAsyncOpenStatus)]_vars

\* C4: whenever the open has failed, also when the completion callback
\* reported the failure, the object is a zombie.
C4_OpenFailureMakesZombie == fAsyncOpenStatus = kAOSFailure => zombie

\* C5: on a zombie every operation reports failure without issuing a call to
\* the remote session.
C5_ZombieFailsFast ==
    zombie =>
        /\ \A length \in 0..1, cache \in 0..2, ok \in BOOLEAN :
              /\ ReadBufferResult(length, cache, ok, length).ret = TRUE
              /\ ReadBufferResult(length, cache, ok, length).net = {}
              /\ WriteBufferResult(length, cache, ok).ret = TRUE
              /\ WriteBufferResult(length, cache, ok).net = {}
        /\ \A statOK \in BOOLEAN :
              /\ GetSizeResult(statOK, 0).ret = -1
              /\ GetSizeResult(statOK, 0).net = {}
        /\ \A modestr \in ModeStrings, openOK \in BOOLEAN :
              /\ ReOpenResult(modestr, openOK).ret # 0
              /\ ReOpenResult(modestr, openOK).net = {}
        /\ \A ok \in BOOLEAN : CloseResult(ok).net = {}

(***************************************************************************)
(* The claims about the chunk lists ReadBuffers builds and submits.        *)
(***************************************************************************)
\* the call in progress has built its chunk lists (line 452 was passed)
Planned == chunkLists # << >>

Ceil(a, b) == (a + b - 1) \div b

\* the chunks of all the chunk lists, in list order and in-list order
RECURSIVE Flatten(_)
Flatten(lists) == IF lists = << >> THEN << >> ELSE Head(lists) \o Flatten(Tail(lists))

\* the byte addresses offset, offset+1, ... a range of len bytes covers
ByteRange(offset, len) == [k \in 1..len |-> offset + k - 1]

\* the byte addresses of a sequence of ranges, range after range
RECURSIVE ByteSeq(_)
ByteSeq(ranges) ==
    IF ranges = << >> THEN << >>
    ELSE ByteRange(Head(ranges).offset, Head(ranges).length) \o ByteSeq(Tail(ranges))

\* the descriptors of the call in progress as ranges
Requested == [i \in 1..Len(rbLen) |-> [offset |-> rbPos[i], length |-> rbLen[i]]]

\* C6: with a chunk limit M >= 1, a descriptor of length L >= 1 is split into
\* exactly ceil(L/M) chunks, each of length 1..M, whose lengths sum to L.
C6_SplitExact ==
    \A i \in 1..Len(rbLen) :
        (Planned /\ fReadvIorMax >= 1 /\ rbLen[i] >= 1) =>
            LET s == SplitDescriptor(rbPos[i], rbLen[i], fReadvIorMax) IN
            /\ Len(s) = Ceil(rbLen[i], fReadvIorMax)
            /\ \A j \in 1..Len(s) : s[j].length \in 1..fReadvIorMax
            /\ SumSeq([j \in 1..Len(s) |-> s[j].length]) = rbLen[i]

\* C7: no chunk list handed to VectorRead holds more chunks than the
\* maximum batch count.
C7_BatchWithinLimit ==
    (fReadvIovMax >= 1) =>
        \A b \in 1..rbIt : Len(chunkLists[b]) <= fReadvIovMax

\* C8: with a maximum batch count of at least 1, every chunk list handed to
\* VectorRead holds at least one chunk, when the call has a descriptor with
\* bytes to read.
C8_BatchNonEmpty ==
    (fReadvIovMax >= 1 /\ \E i \in 1..Len(rbLen) : rbLen[i] >= 1) =>
        \A b \in 1..rbIt : Len(chunkLists[b]) >= 1

\* C9: a call with no descriptor, or with descriptors of length zero only,
\* hands nothing to VectorRead and returns success.
C9_NothingToRead ==
    (Planned /\ \A i \in 1..Len(rbLen) : rbLen[i] = 0) =>
        /\ rbIt = 0
        /\ rbPc = "done" => rbRet = FALSE

\* C10: the chunks of all chunk lists, taken in order, cover the bytes of the
\* descriptors in descriptor order, each from its offset over its length,
\* without gap, overlap, loss or reordering, and with the same total length.
C10_ChunksReconstruct ==
    Planned =>
        /\ ByteSeq(Flatten(chunkLists)) = ByteSeq(Requested)
        /\ SumSeq([k \in 1..Len(Flatten(chunkLists)) |-> Flatten(chunkLists)[k].length])
              = SumSeq(rbLen)

(***************************************************************************)
(* The claims about the dispatch and the join of ReadBuffers.              *)
(***************************************************************************)
\* the call has returned from line 469: a VectorRead submission was rejected
DispatchFailed == rbPc = "done" /\ Planned /\ rbWaited = 0

\* C11: when the submission of a chunk list is rejected, the call reports
\* failure, the chunk lists after it have not been submitted, and the
\* completions of the chunk lists submitted before it have been drained:
\* none of their handlers is still to be called and each of their signals was
\* consumed.
C11_RejectionDrains ==
    DispatchFailed =>
        /\ rbRet = TRUE
        /\ \A b \in (rbIt + 1)..Len(chunkLists) : b \notin inflight
        /\ inflight = {}
        /\ semaphore = 0

\* the chunk lists whose handler has written its status
Filled == {b \in 1..Len(statuses) : statuses[b] # "null"}

\* the call is past the join of lines 474-476: it inspects the statuses, has
\* printed one, or has returned success
PastJoin ==
    Planned /\ (rbPc = "check" \/ rbReported # 0 \/ (rbPc = "done" /\ rbRet = FALSE))

\* C12: every handler writes the status of its chunk list before it signals
\* and signals once, so the signals received and pending are as many as the
\* statuses written; the call inspects no status and does not return success
\* before it has received as many signals as it submitted chunk lists, all
\* of them, and then every status has been written.
C12_JoinWaitsForAll ==
    /\ (Planned /\ rbPc \in {"submit", "wait", "check"}) =>
          /\ rbWaited + semaphore = Cardinality(Filled)
          /\ Filled \cap inflight = {}
          /\ Filled \cup inflight = 1..(IF rbPc = "submit" THEN rbIt ELSE Len(chunkLists))
    /\ PastJoin =>
          /\ rbIt = Len(chunkLists)
          /\ rbWaited = Len(chunkLists)
          /\ semaphore = 0
          /\ inflight = {}
          /\ Filled = 1..Len(chunkLists)

\* the join of a call with two chunk lists has completed, the second
\* completion having failed
C12_Witness ==
    rbPc = "check" /\ Len(chunkLists) = 2 /\ rbWaited = 2 /\ statuses = <<"ok", "err">>

\* the chunk lists whose completion reported an error
Failing == {b \in 1..Len(statuses) : statuses[b] = "err"}

\* C13: once the call is past the scan of the statuses, the status it has
\* printed is that of the failing chunk list of the lowest index, whatever
\* the order the completions arrived in, and it has printed one exactly when
\* a chunk list failed.
C13_LowestFailingReported ==
    (Planned /\ rbPc \in {"done", "crashed"} /\ rbWaited = Len(chunkLists)) =>
        /\ (rbReported # 0) <=> (Failing # {})
        /\ rbReported # 0 =>
              /\ rbReported \in Failing
              /\ \A b \in Failing : rbReported <= b

\* two chunk lists failed and the call has printed the status of the first
C13_Witness ==
    rbPc = "done" /\ statuses = <<"err", "err">> /\ rbReported = 1

\* C14: the call returns success exactly when every chunk list was
\* submitted and completed with an OK status; when a chunk list fails, at
\* the submission or at the completion, the call returns failure and leaves
\* fBytesRead and fReadCalls as they were.
C14_SuccessIffAllOK ==
    [][/\ (rbPc = "submit" /\ rbPc' \notin {"submit", "wait"}) =>
             (rbPc' = "done" /\ rbRet' = TRUE /\ UNCHANGED countVars)
       /\ (rbPc = "check" /\ rbPc' # "check" /\ Failing # {}) =>
             (rbPc' = "done" /\ rbRet' = TRUE /\ UNCHANGED countVars)
       /\ (rbPc = "check" /\ rbPc' # "check" /\ Failing = {}) =>
             (rbPc' = "done" /\ rbRet' = FALSE)
       /\ (rbPc # "done" /\ rbPc' = "done" /\ rbRet' = FALSE) =>
             (rbIt = Len(chunkLists) /\ \A b \in 1..Len(statuses) : statuses[b] = "ok")]_vars

\* C15: when the call has ended on a join path, with or without a failing
\* status, the status object of every chunk list has been deleted exactly
\* once.
C15_StatusesReleasedOnce ==
    (Planned /\ rbPc \in {"done", "crashed"} /\ rbWaited = Len(chunkLists)) =>
        \A b \in 1..Len(chunkLists) : rbFreed[b] = 1

(***************************************************************************)
(* The claims about ReOpen, the single-buffer operations and the limits.   *)
(***************************************************************************)
\* C16: ReOpen with the mode the file has, or with Update on a file whose
\* mode is New, returns 1, issues no Close and no Open and leaves the mode
\* and the session as they are.
C16_ReOpenSameModeNoOp ==
    \A modestr \in ModeStrings, openOK \in BOOLEAN :
        (ParseOpenMode(modestr) = fMode
            \/ (ParseOpenMode(modestr) = "Update" /\ fMode = "New")) =>
            /\ ReOpenResult(modestr, openOK).ret = 1
            /\ ReOpenResult(modestr, openOK).net = {}
            /\ ReOpenResult(modestr, openOK).fMode = fMode
            /\ ReOpenResult(modestr, openOK).sess = sess

\* an open file created with mode New, on which ReOpen("UPDATE") applies
C16_Witness ==
    fMode = "New" /\ sess = "open" /\ ~zombie /\ UserIdle
        /\ ReOpenResult("UPDATE", TRUE).ret = 1

\* C17: ReOpen returns 0 exactly when it changed the mode with success, 1
\* exactly when the mode did not change, and -1 when reopening the session
\* fails.
C17_ReOpenReturnValues ==
    \A modestr \in ModeStrings, openOK \in BOOLEAN :
        LET r == ReOpenResult(modestr, openOK) IN
        /\ (r.ret = 0) <=> (r.fMode # fMode /\ r.sess = "open")
        /\ (r.ret = 1) <=> (r.fMode = fMode /\ r.net = {})
        /\ ("Open" \in r.net /\ r.sess # "open") => r.ret = -1

\* C18: on a usable file a ReadBuffer whose Read fails and a WriteBuffer
\* whose Write fails return kTRUE after that one call to the session and
\* leave fOffset, fBytesRead, fReadCalls and fBytesWrite as they are; no
\* ReadBuffer or WriteBuffer step changes the zombie flag, the session or any
\* other member of the file, so the file is as usable as before.
C18_FailedTransferLeavesFile ==
    /\ [](IsUseable =>
            \A length \in 0..1, bytesRead \in 0..1 :
                LET r == ReadBufferResult(length, 0, FALSE, bytesRead)
                    w == WriteBufferResult(length, 0, FALSE) IN
                /\ r.ret = TRUE /\ r.net = {"Read"}
                /\ r.fOffset = fOffset /\ r.fBytesRead = fBytesRead
                /\ r.fReadCalls = fReadCalls
                /\ w.ret = TRUE /\ w.net = {"Write"}
                /\ w.fOffset = fOffset /\ w.fBytesWrite = fBytesWrite)
    /\ [][((\E length \in 0..1, cache \in 0..2, ok \in BOOLEAN, bytesRead \in 0..1 :
                ReadBuffer(length, cache, ok, bytesRead))
            \/ (\E length \in 0..1, cache \in 0..2, ok \in BOOLEAN :
                WriteBuffer(length, cache, ok)))
              => UNCHANGED <<fileVars, rbVars>>]_vars

\* a usable file on which a read has succeeded: a failing read leaves its
\* offset and counters where that read put them
C18_Witness ==
    IsUseable /\ UserIdle /\ fOffset = 1 /\ fReadCalls = 1
        /\ ReadBufferResult(1, 0, FALSE, 0).ret = TRUE

\* C19: once the file is initialised, which is when its vectored-read
\* limits have been queried, it stays initialised and no step changes
\* fReadvIorMax or fReadvIovMax: the limits are queried once.
C19_LimitsSetOnce ==
    [][fInitDone =>
          (fInitDone' /\ fReadvIorMax' = fReadvIorMax /\ fReadvIovMax' = fReadvIovMax)]_vars

\* a file opened asynchronously whose Init has run and has got both limits
\* from the server
C19_Witness ==
    fInitDone /\ fAsyncOpenStatus = kAOSSuccess /\ IsUseable /\ UserIdle
        /\ fReadvIorMax = 1 /\ fReadvIovMax = 2

(***************************************************************************)
(* The claim about two concurrent ReadBuffers calls.                       *)
(***************************************************************************)
\* the first successful call of the one thread and the call of the other
\* have both passed line 500
BothSucceeded == rbPc = "done" /\ rbRet = FALSE /\ otherPc = "done"

\* C20: two ReadBuffers calls that run concurrently on a file leave
\* fReadCalls and fBytesRead as the two calls run one after the other do:
\* both calls counted, the bytes of both added.
C20_ConcurrentCallsSerial ==
    BothSucceeded =>
        /\ fReadCalls = 2
        /\ fBytesRead = TotalBytes(rbLen) + OtherTotalBytes

(***************************************************************************)
(* The claims about the arithmetic of ReadBuffers and about its limits.    *)
(***************************************************************************)
\* C21: a ReadBuffers call that returns success has increased fBytesRead by
\* the arithmetic sum of the lengths of its descriptors and fReadCalls by 1,
\* also when that sum is beyond the range of Int_t.
C21_CountersExact ==
    [][(rbPc = "check" /\ rbPc' = "done" /\ rbRet' = FALSE) =>
          (fBytesRead' = fBytesRead + SumSeq(rbLen) /\ fReadCalls' = fReadCalls + 1)]_vars

\* the chunks pushed for descriptor i, and the number of chunks pushed for
\* the descriptors before it
ChunksOf(i) == SplitDescriptor(rbPos[i], rbLen[i], fReadvIorMax)
ChunksBefore(i) == SumSeq([k \in 1..(i - 1) |-> Len(ChunksOf(k))])

\* C22: the offset of every chunk is the Long64_t position of its descriptor
\* plus the lengths of the chunks of that descriptor before it, for
\* positions inside and beyond the Int_t range.
C22_ChunkOffsets ==
    Planned =>
        \A i \in 1..Len(rbLen) : \A j \in 1..Len(ChunksOf(i)) :
            Flatten(chunkLists)[ChunksBefore(i) + j].offset
                = rbPos[i] + SumSeq([k \in 1..(j - 1) |->
                                       Flatten(chunkLists)[ChunksBefore(i) + k].length])

\* C23: on every usable file, the files ReadBuffers runs its plan on, both
\* limits are strictly positive, whatever the limits query answered, so the
\* division and the modulo of lines 421-422 are defined for every length.
C23_LimitsPositive ==
    IsUseable =>
        /\ fReadvIorMax >= 1
        /\ fReadvIovMax >= 1
        /\ \A len \in 0..MaxLen : PlanDefined(<<len>>, fReadvIorMax)

(***************************************************************************)
(* The claim about Init after a rejected asynchronous open.                *)
(***************************************************************************)
\* the state the constructor leaves when the remote session rejects the
\* asynchronous open (lines 150-156): the handler's constructor has set
\* kAOSInProgress, the object is a zombie, no handler will be called
RejectedOpen ==
    zombie /\ sess = "closed" /\ openCb = "none" /\ fAsyncOpenStatus = kAOSInProgress

\* C24: when the remote session has rejected the submission of the
\* asynchronous open, a thread that has entered Init on its blocking path
\* always eventually leaves it: Init returns.
C24_InitReturnsAfterRejection == (RejectedOpen /\ InitBlocked) ~> ~InitBlocked

(***************************************************************************)
(* The claim about the lifetime of the status vector and the semaphore.    *)
(***************************************************************************)
\* C25: the status vector and the semaphore of a call are not accessed
\* after they were deleted, by the calling thread or by a handler; and a
\* call that returns while handlers of it are still to be called has not
\* deleted what those handlers will write to.
C25_NoAccessAfterRelease ==
    /\ ~rbStale
    /\ (rbPc = "done" /\ inflight # {}) => ~rbReleased

====
